---- MODULE Spec2Model ----
(***************************************************************************)
(* Model of the in-memory store (MemStorage) of the fixed-width liquor     *)
(* converter and of the request handlers that drive it: the fixed-width    *)
(* line parser, catalog ingestion by upload and by download, barcode scan, *)
(* manual add-item, scanned-item deletion, price override, the scanned     *)
(* item listing and label generation, and the session operations,          *)
(* together with the session sidebar's delete flow.                        *)
(*                                                                         *)
(* A handler is cut into one action per run-to-completion segment: the     *)
(* code between two awaits runs without interruption, and another          *)
(* request's segment may run at every await.                               *)
(*                                                                         *)
(* Strings are sequences of one-character strings.  randomUUID() returns   *)
(* a fresh id at every call: nextId counts the ids handed out to catalog   *)
(* entries, scanned items and sessions; ids of different kinds of entity   *)
(* are never compared with each other.  Numbers are counted in hundredths. *)
(***************************************************************************)
EXTENDS Integers, Sequences, FiniteSets, TLC

VARIABLES
    liquorRecords,    \* MemStorage.liquorRecords: the Map in insertion order
    scannedItems,     \* MemStorage.scannedItems: the Map in insertion order
    sessions,         \* MemStorage.sessions: the Map in insertion order
    activeSessionId,  \* MemStorage.activeSessionId (NoId is null)
    nextId,           \* the ids randomUUID() returns next, per kind of entity
    ing,              \* the ingestion requests in flight, one per request slot
    req,              \* the scan / add-item request in flight
    last,             \* the outcome of the operation that completed last
    currentSessionId, \* SessionSidebar prop currentSessionId (NoId is null)
    sessionsData,     \* SessionSidebar: cached result of GET /api/sessions
    del               \* SessionSidebar: the delete flow in flight

vars == <<liquorRecords, scannedItems, sessions, activeSessionId, nextId,
          ing, req, last, currentSessionId, sessionsData, del>>

storeVars == <<liquorRecords, scannedItems, sessions, activeSessionId, nextId>>
sidebarVars == <<currentSessionId, sessionsData, del>>

----------------------------------------------------------------------------
(* Bounds *)

MaxRecords == 3   \* catalog entries created in one run
MaxItems == 2     \* scanned items created in one run
MaxSessions == 2  \* sessions created in one run
MaxLines == 2     \* records of one ingested file
MaxMappings == 2  \* custom name mappings an export receives

----------------------------------------------------------------------------
(* Values *)

NoId == 0
UnknownId == MaxRecords + MaxItems + MaxSessions + 1   \* an id no entity carries
Null == <<"null">>              \* a null string field
\* the value of a price field: a number, counted in hundredths, Infinity,
\* a string, or null
Num(n) == [t |-> "num", n |-> n]
NullPrice == [t |-> "null", n |-> 0]
Infinity == [t |-> "inf", n |-> 0]
NaN == [t |-> "nan", n |-> 0]
Str(s) == [t |-> "str", s |-> s]

\* the barcode the scanner page sends to probe for loaded data
TestCheckOnly == <<"t">>


\* JavaScript `value || fallback` on a string
OrStr(s, fallback) == IF s = <<>> \/ s = Null THEN fallback ELSE s

\* JavaScript `value || null` on a price (0 is falsy)
OrNullPrice(p) ==
    IF p.t = "null" \/ (p.t = "num" /\ p.n = 0) \/ (p.t = "str" /\ p.s = <<>>)
    THEN NullPrice ELSE p

----------------------------------------------------------------------------
(* parseLine *)

FIELD_SPECS ==
    << [name |-> "LIQUOR CODE",       start |-> 0,   end |-> 5,   key |-> "liquorCode"],
       [name |-> "BRAND NAME",        start |-> 5,   end |-> 37,  key |-> "brandName"],
       [name |-> "ADA NUMBER",        start |-> 37,  end |-> 40,  key |-> "adaNumber"],
       [name |-> "ADA NAME",          start |-> 40,  end |-> 65,  key |-> "adaName"],
       [name |-> "VENDOR NAME",       start |-> 65,  end |-> 90,  key |-> "vendorName"],
       [name |-> "PROOF",             start |-> 110, end |-> 115, key |-> "proof"],
       [name |-> "BOTTLE SIZE",       start |-> 115, end |-> 122, key |-> "bottleSize"],
       [name |-> "PACK SIZE",         start |-> 122, end |-> 125, key |-> "packSize"],
       [name |-> "ON PREMISE PRICE",  start |-> 125, end |-> 136, key |-> "onPremisePrice"],
       [name |-> "OFF PREMISE PRICE", start |-> 136, end |-> 147, key |-> "offPremisePrice"],
       [name |-> "SHELF PRICE",       start |-> 147, end |-> 158, key |-> "shelfPrice"],
       [name |-> "UPC CODE 1",        start |-> 158, end |-> 172, key |-> "upcCode1"],
       [name |-> "UPC CODE 2",        start |-> 172, end |-> 186, key |-> "upcCode2"],
       [name |-> "EFFECTIVE DATE",    start |-> 186, end |-> 194, key |-> "effectiveDate"] >>

\* the field names for which name.includes("PRICE") holds
PriceNames == {"ON PREMISE PRICE", "OFF PREMISE PRICE", "SHELF PRICE"}

\* String.prototype.slice(start, end) with 0 <= start <= end
slice(str, start, end) ==
    SubSeq(str, start + 1, IF end < Len(str) THEN end ELSE Len(str))

WhiteSpace == {" ", "\t", "\r"}

\* the positions of the characters of str that are not in the set
Outside(str, chars) == {i \in 1..Len(str) : str[i] \notin chars}

trimStart(str) ==
    LET black == Outside(str, WhiteSpace)
    IN IF black = {} THEN <<>>
       ELSE SubSeq(str, CHOOSE i \in black : \A j \in black : i <= j, Len(str))

trimEnd(str) ==
    LET black == Outside(str, WhiteSpace)
    IN IF black = {} THEN <<>>
       ELSE SubSeq(str, 1, CHOOSE i \in black : \A j \in black : i >= j)

trim(str) == trimEnd(trimStart(str))

DecimalDigits == <<"0", "1", "2", "3", "4", "5", "6", "7", "8", "9">>
DigitChars == {DecimalDigits[d] : d \in 1..10}
DigitValue(c) == (CHOOSE d \in 1..10 : DecimalDigits[d] = c) - 1

Least(S) == CHOOSE i \in S : \A j \in S : i <= j
Greatest(S) == CHOOSE i \in S : \A j \in S : i >= j

RECURSIVE digitsValue(_, _)
\* the number the first n characters of a string of digits denote
digitsValue(digits, n) ==
    IF n = 0 THEN 0 ELSE 10 * digitsValue(digits, n - 1) + DigitValue(digits[n])

RECURSIVE pow10(_)
pow10(n) == IF n = 0 THEN 1 ELSE 10 * pow10(n - 1)

InfinityLiteral == <<"I", "n", "f", "i", "n", "i", "t", "y">>

unsigned(str) == IF str # <<>> /\ Head(str) \in {"+", "-"} THEN Tail(str) ELSE str

\* the part of an unsigned literal before its exponent mark, and the part
\* after it
mantissaPart(str) ==
    IF Outside(str, DigitChars \cup {"."}) = {} THEN str
    ELSE SubSeq(str, 1, Least(Outside(str, DigitChars \cup {"."})) - 1)

exponentPart(str) ==
    IF Outside(str, DigitChars \cup {"."}) = {} THEN <<>>
    ELSE SubSeq(str, Least(Outside(str, DigitChars \cup {"."})) + 1, Len(str))

\* digits with at most one point among them: 12, 12., 12.5, .5
IsMantissa(str) ==
    /\ Outside(str, DigitChars \cup {"."}) = {}
    /\ Outside(str, {"."}) # {}
    /\ Len(str) - Cardinality(Outside(str, {"."})) <= 1

\* StrDecimalLiteral: a sign, then Infinity or a decimal number with an
\* optional exponent
IsStrDecimalLiteral(str) ==
    \/ unsigned(str) = InfinityLiteral
    \/ /\ IsMantissa(mantissaPart(unsigned(str)))
       /\ \/ mantissaPart(unsigned(str)) = unsigned(str)
          \/ /\ unsigned(str)[Len(mantissaPart(unsigned(str))) + 1] \in {"e", "E"}
             /\ unsigned(exponentPart(unsigned(str))) # <<>>
             /\ Outside(unsigned(exponentPart(unsigned(str))), DigitChars) = {}

\* the value of a StrDecimalLiteral, kept to the hundredth
literalValue(literal) ==
    LET mantissa == mantissaPart(unsigned(literal))
        exponent == exponentPart(unsigned(literal))
        digits == SelectSeq(mantissa, LAMBDA c : c \in DigitChars)
        fraction == IF Outside(mantissa, DigitChars) = {} THEN 0
                    ELSE Len(mantissa) - Least(Outside(mantissa, DigitChars))
        power == digitsValue(unsigned(exponent), Len(unsigned(exponent)))
        scale == (IF exponent # <<>> /\ Head(exponent) = "-" THEN 0 - power ELSE power)
                    - fraction + 2
        magnitude == IF scale >= 0 THEN digitsValue(digits, Len(digits)) * pow10(scale)
                     ELSE digitsValue(digits, Len(digits)) \div pow10(0 - scale)
    IN IF unsigned(literal) = InfinityLiteral THEN Infinity
       ELSE Num(IF Head(literal) = "-" THEN 0 - magnitude ELSE magnitude)

\* the lengths of the prefixes of a string that are StrDecimalLiterals
literalLengths(str) ==
    {n \in 1..Len(str) : IsStrDecimalLiteral(SubSeq(str, 1, n))}

\* parseFloat: leading white space is skipped, the longest prefix that is a
\* StrDecimalLiteral is converted and what follows it is ignored; NaN when
\* no prefix is one
parseFloat(string) ==
    CHOOSE number \in
        { IF literalLengths(trimmed) = {} THEN NaN
          ELSE literalValue(SubSeq(trimmed, 1, Greatest(literalLengths(trimmed))))
          : trimmed \in {trimStart(string)} } : TRUE

\* value.replace(/[$,]/g, '')
removeDollarComma(value) == SelectSeq(value, LAMBDA c : c \notin {"$", ","})

\* parseLine without the date formatting branch
fieldValueDateAsIs(line, spec) ==
    CHOOSE converted \in
        { IF spec.name \in PriceNames
          THEN IF parseFloat(removeDollarComma(value)) # NaN
               THEN parseFloat(removeDollarComma(value))
               ELSE Str(value)
          ELSE value
          : value \in {trim(slice(line, spec.start, spec.end))} } : TRUE

\* the value parseLine puts into row[...] for one field specification
fieldValue(line, spec) ==
    CHOOSE converted \in
        { IF spec.name \in PriceNames
          THEN IF parseFloat(removeDollarComma(value)) # NaN
               THEN parseFloat(removeDollarComma(value))
               ELSE Str(value)
          ELSE IF spec.name = "EFFECTIVE DATE" /\ Len(value) = 8
          THEN slice(value, 4, 8) \o <<"-">> \o slice(value, 0, 2) \o <<"-">> \o slice(value, 2, 4)
          ELSE value
          : value \in {trim(slice(line, spec.start, spec.end))} } : TRUE

\* JavaScript `value || 0` on a price
OrZeroPrice(p) ==
    IF (p.t = "num" /\ p.n = 0) \/ (p.t = "str" /\ p.s = <<>>) THEN Num(0) ELSE p

FieldKeys == {FIELD_SPECS[i].key : i \in 1..Len(FIELD_SPECS)}
SpecOf(key) == FIELD_SPECS[CHOOSE i \in 1..Len(FIELD_SPECS) : FIELD_SPECS[i].key = key]

parseLine(line) ==
    [key \in FieldKeys |->
        IF SpecOf(key).name \in PriceNames
        THEN OrZeroPrice(fieldValue(line, SpecOf(key)))
        ELSE OrStr(fieldValue(line, SpecOf(key)), <<>>)]

\* content.split('\n').filter(line => line.trim()), then parseLine per line
parseFileContent(lines) ==
    LET kept == SelectSeq(lines, LAMBDA line : trim(line) # <<>>)
    IN [i \in 1..Len(kept) |-> parseLine(kept[i])]

RECURSIVE SeqsUpTo(_, _)
SeqsUpTo(S, n) ==
    IF n = 0 THEN {<<>>}
    ELSE LET shorter == SeqsUpTo(S, n - 1)
         IN shorter \cup {Append(s, x) : s \in shorter, x \in S}

LineLength == 194
Spaces(n) == [i \in 1..n |-> " "]

\* the fixed-width line that carries the given texts in the columns of
\* their fields and spaces everywhere else
fixedWidth(texts) ==
    [p \in 1..LineLength |->
        LET at == {i \in 1..Len(FIELD_SPECS) :
                      /\ FIELD_SPECS[i].key \in DOMAIN texts
                      /\ FIELD_SPECS[i].start < p
                      /\ p <= FIELD_SPECS[i].end}
        IN IF at = {} THEN " "
           ELSE LET spec == FIELD_SPECS[CHOOSE i \in at : TRUE]
                    text == texts[spec.key]
                IN IF p - spec.start <= Len(text) THEN text[p - spec.start] ELSE " "]

PriceTexts ==
    { <<"$", "1", ",", "2", "3", "4", ".", "5", "6">>,
      <<"N", "/", "A">>,
      <<"1", "2", "a", "b">>,
      <<"0", ".", "0", "0">>,
      <<"I", "n", "f", "i", "n", "i", "t", "y">>,
      <<"7">>,
      <<>> }

PricedLine(text) ==
    fixedWidth([liquorCode |-> <<"1">>, brandName |-> <<"A", "B">>,
                shelfPrice |-> text, upcCode1 |-> <<"0", "0", "1">>,
                effectiveDate |-> <<"0", "1", "0", "2", "2", "0", "2", "4">>])

\* a line of 203 characters whose brand name ends at column 28 and whose
\* last eight characters are 15012024
SampleLine ==
    <<"0", "8", "2", "3", "4", "J", "a", "c", "k", " ", "D", "a",
      "n", "i", "e", "l", "'", "s", " ", "O", "l", "d", " ", "N",
      "o", ".", " ", "7", " ", " ", " ", " ", " ", " ", " ", " ",
      "0", "0", "1", "P", "r", "e", "m", "i", "u", "m", " ", "W",
      "h", "i", "s", "k", "e", "y", " ", " ", " ", " ", " ", " ",
      " ", " ", "B", "r", "o", "w", "n", "-", "F", "o", "r", "m",
      "a", "n", " ", "C", "o", "r", "p", " ", " ", " ", " ", " ",
      " ", " ", " ", " ", " ", " ", " ", " ", " ", " ", " ", " ",
      " ", " ", " ", " ", " ", " ", " ", " ", " ", " ", " ", " ",
      " ", " ", " ", " ", " ", " ", " ", " ", " ", " ", " ", " ",
      " ", " ", "8", "0", " ", " ", " ", " ", "7", "5", "0", "M",
      "L", " ", " ", "1", "2", " ", "$", "2", "8", ".", "9", "9",
      " ", " ", " ", " ", "$", "2", "6", ".", "9", "9", " ", " ",
      " ", " ", "$", "2", "4", ".", "9", "9", " ", " ", " ", " ",
      "0", "1", "2", "3", "4", "5", "6", "7", "8", "9", "0", "1",
      "2", "9", "8", "7", "6", "5", "4", "3", "2", "1", "0", "9",
      "8", "7", "0", "1", "5", "0", "1", "2", "0", "2", "4">>

\* the texts of that line laid out in the columns of FIELD_SPECS
AlignedSampleLine ==
    fixedWidth([liquorCode |-> <<"0", "8", "2", "3", "4">>,
                brandName |-> <<"J", "a", "c", "k", " ", "D", "a", "n",
                  "i", "e", "l", "'", "s", " ", "O", "l",
                  "d", " ", "N", "o", ".", " ", "7">>,
                shelfPrice |-> <<"$", "2", "4", ".", "9", "9">>,
                effectiveDate |-> <<"0", "1", "1", "5", "2", "0", "2", "4">>])

\* full lines, a line cut after the brand name, a line cut inside the shelf
\* price, a blank line and the empty line
ParseLines ==
    {PricedLine(text) : text \in PriceTexts}
    \cup {SampleLine, AlignedSampleLine}
    \cup {SubSeq(PricedLine(<<"7">>), 1, 10),
          SubSeq(PricedLine(<<"1", "2", ".", "5", "0">>), 1, 150),
          Spaces(3),
          <<>>}

\* file contents as their lines: one line, or several that begin with a
\* blank line or with a full line
Contents ==
    {content \in SeqsUpTo(ParseLines, MaxLines) :
        /\ content # <<>>
        /\ Len(content) > 1 => content[1] \in {Spaces(3), PricedLine(<<"7">>)}}

\* the records the upload route parses out of each content
Parsed == [content \in Contents |-> parseFileContent(content)]

\* rows as parseLine returns them (the fields the store logic reads)
Rows ==
    { [brandName |-> <<"A">>, vendorName |-> <<"V">>, shelfPrice |-> Num(5),
       upcCode1 |-> <<"0", "0", "1">>, upcCode2 |-> <<>>],
      [brandName |-> <<"B">>, vendorName |-> <<"V">>, shelfPrice |-> Num(5),
       upcCode1 |-> <<"0", "1">>, upcCode2 |-> <<"9", "1">>],
      [brandName |-> <<"C">>, vendorName |-> <<>>, shelfPrice |-> Num(0),
       upcCode1 |-> <<>>, upcCode2 |-> <<>>],
      [brandName |-> <<"D">>, vendorName |-> <<"W">>, shelfPrice |-> Num(3),
       upcCode1 |-> <<"9", "1">>, upcCode2 |-> <<"0">>] }

\* rows with the fields the label exports read: a full record, a record
\* whose price is not a number, and a record whose bottle size is blank
ExportRows ==
    { [brandName |-> <<"B">>, vendorName |-> <<"V">>, liquorCode |-> <<"0", "7">>,
       bottleSize |-> <<"1", " ", "L">>, shelfPrice |-> Num(5),
       upcCode1 |-> <<"0", "1">>, upcCode2 |-> <<"9", "1">>],
      [brandName |-> <<"E">>, vendorName |-> <<"V">>, liquorCode |-> <<"0">>,
       bottleSize |-> <<"L">>, shelfPrice |-> Str(<<"N", "/", "A">>),
       upcCode1 |-> <<"6">>, upcCode2 |-> <<>>],
      [brandName |-> <<"D">>, vendorName |-> <<>>, liquorCode |-> <<"8">>,
       bottleSize |-> <<>>, shelfPrice |-> Num(3),
       upcCode1 |-> <<"5">>, upcCode2 |-> <<>>] }

ExportRow(name) == CHOOSE r \in ExportRows : r.brandName = <<name>>
ExportFiles == {<<ExportRow("B"), ExportRow("E")>>, <<ExportRow("D")>>}
ExportBarcodes == {<<"0", "0", "1">>, <<"9", "1">>, <<"6">>, <<"5">>}

\* the mappings GET /api/custom-names answers with
Mappings ==
    [upcCode : {<<"1">>, <<"0", "1">>, <<"9", "1">>}, customName : {<<"X">>, <<"Y">>}]
MappingLists == SeqsUpTo(Mappings, MaxMappings)

Files == SeqsUpTo(Rows, MaxLines)
\* the file the store specifications start from: one record with a
\* zero-padded UPC and one with blank UPC fields
LoadedFile == <<CHOOSE r \in Rows : r.brandName = <<"A">>, CHOOSE r \in Rows : r.brandName = <<"C">> >>
Barcodes == {<<>>, TestCheckOnly, <<"0">>, <<"1">>, <<"0", "1">>, <<"0", "0">>}
ScanBarcodes == {<<>>, TestCheckOnly, <<"1">>, <<"9">>}
AddBarcodes == {<<>>, <<"1">>}
Prices == {7, 9}
\* the texts the price input holds when Save is pressed: numbers, the text
\* startEditingPrice puts there for a price that is not a number, and nothing
EditPrices == {<<"7">>, <<"0", ".", "5", "0">>, <<"-", "5">>, <<"N", "a", "N">>, <<>>}
Names == {"work"}
DefaultName == "Scan Session"

----------------------------------------------------------------------------
(* MemStorage: pure parts *)

\* the fields createLiquorRecord stores as `insertRecord.field || null`
NullableStrings == {"adaNumber", "adaName", "vendorName", "proof", "bottleSize",
                    "packSize", "upcCode1", "upcCode2", "effectiveDate"}
NullablePrices == {"onPremisePrice", "offPremisePrice", "shelfPrice"}

\* a catalog entry is the Map key together with the LiquorRecord stored
\* under it: { id, ...insertRecord, field: insertRecord.field || null, ... }
createLiquorRecord(id, row) ==
    [field \in {"key", "id"} \cup DOMAIN row |->
        IF field \in {"key", "id"} THEN id
        ELSE IF field \in NullablePrices THEN OrNullPrice(row[field])
        ELSE IF field \in NullableStrings THEN OrStr(row[field], Null)
        ELSE row[field]]

RECURSIVE stripLeadingZeros(_)
stripLeadingZeros(s) ==
    IF s # <<>> /\ Head(s) = "0" THEN stripLeadingZeros(Tail(s)) ELSE s

\* normalizeUpc with /^0/ for /^0+/: only the first zero is removed
normalizeUpcOneZero(upc) ==
    IF upc = Null \/ upc = <<>> THEN <<>>
    ELSE OrStr(IF Head(upc) = "0" THEN Tail(upc) ELSE upc, <<"0">>)

normalizeUpc(upc) ==
    IF upc = Null \/ upc = <<>> THEN <<>>
    ELSE OrStr(stripLeadingZeros(upc), <<"0">>)

recordMatches(record, barcode) ==
    \/ record.upcCode1 = barcode
    \/ record.upcCode2 = barcode
    \/ normalizeUpc(record.upcCode1) = normalizeUpc(barcode)
    \/ normalizeUpc(record.upcCode2) = normalizeUpc(barcode)

\* Array.prototype.find over the elements that satisfy the callback, in order:
\* the first of them, <<>> for undefined
Find(hits) == IF hits = <<>> THEN <<>> ELSE <<Head(hits)>>

findLiquorByBarcode(records, barcode) ==
    Find(SelectSeq(records, LAMBDA r : recordMatches(r, barcode)))

addScannedItem(items, id, sessionId, liquorRecordId, scannedBarcode, quantity) ==
    Append(items, [id |-> id,
                   sessionId |-> sessionId,
                   liquorRecordId |-> liquorRecordId,
                   scannedBarcode |-> scannedBarcode,
                   quantity |-> IF quantity = 0 THEN 1 ELSE quantity])

getScannedItems(items, sessionId) ==
    SelectSeq(items, LAMBDA it : it.sessionId = sessionId)

clearScannedItems(items, sessionId) ==
    SelectSeq(items, LAMBDA it : it.sessionId # sessionId)

\* deleteScannedItem removing the oldest item, whichever id is given
deleteScannedItemOldest(items, itemId) ==
    IF items = <<>> THEN items ELSE Tail(items)

deleteScannedItem(items, itemId) ==
    SelectSeq(items, LAMBDA it : it.id # itemId)

\* the product a scanned item is shown with: the lazy join of
\* GET /api/scanned-items/:sessionId, <<>> for `product: null`
product(records, item) ==
    Find(SelectSeq(records, LAMBDA r : r.id = item.liquorRecordId))

\* the listing dropping the events whose product is not in the catalog
scannedItemsWithDetailsMatchedOnly(records, items) ==
    SelectSeq([i \in 1..Len(items) |->
                  [item |-> items[i], product |-> product(records, items[i])]],
              LAMBDA e : e.product # <<>>)

\* GET /api/scanned-items/:sessionId: { ...item, product: product || null }
\* for every item of the snapshot
scannedItemsWithDetails(records, items) ==
    [i \in 1..Len(items) |->
        [item |-> items[i], product |-> product(records, items[i])]]

\* POST /api/generate-labels: the items that are handed to generateLabelHTML
labelItems(records, items) ==
    SelectSeq(scannedItemsWithDetails(records, items), LAMBDA e : e.product # <<>>)

ProductNotFound == "Product Not Found"

\* ScannedItemsList: the heading an entry of the listing is rendered with
renderHeading(entry) ==
    IF entry.product # <<>> THEN entry.product[1].brandName ELSE ProductNotFound

\* the keys of the row object the label exports build, in insertion order
ptouchColumns ==
    << "Upc", "Department", "qty", "cents", "incltaxes", "inclfees", "Name",
       "Price", "size", "ebt", "byweight", "Fee Multiplier", "cost_qty",
       "cost_cents", "variable_price", "addstock", "setstock", "pack_name",
       "pack_qty", "pack_upc", "unit_upc", "unit_count", "is_oneclick",
       "oc_color", "oc_border_color", "oc_text_color", "oc_fixedpos",
       "oc_page", "oc_key", "oc_relpos" >>

\* the columns whose value is a literal other than the empty string
ptouchLiterals ==
    [c \in {"Department", "qty", "incltaxes", "inclfees", "byweight",
            "Fee Multiplier", "cost_qty", "cost_cents", "variable_price",
            "setstock", "is_oneclick"} |->
        CASE c = "Department" -> "Liquor"
          [] c \in {"qty", "Fee Multiplier", "cost_qty"} -> "1"
          [] c = "cost_cents" -> "0"
          [] c = "setstock" -> "\"=\"\"0\"\"\""
          [] OTHER -> "n"]

quoted(str) == <<"\"">> \o str \o <<"\"">>

\* upc.replace(/^0+/, '') || '0'
stripZeros(upc) == OrStr(stripLeadingZeros(upc), <<"0">>)

\* typeof shelfPrice === 'number' ? shelfPrice : parseFloat(shelfPrice);
\* JSON carries a null or non-finite price as null, which parses to NaN
exportPrice(record) ==
    IF record.shelfPrice.t = "num" THEN record.shelfPrice
    ELSE IF record.shelfPrice.t = "str" THEN parseFloat(record.shelfPrice.s)
    ELSE NaN

\* one row of the label CSV: Object.values(row) in the order of the keys
ptouchRow(entry, finalName) ==
    [i \in 1..Len(ptouchColumns) |->
        LET column == ptouchColumns[i]
        IN CASE column = "Upc" -> quoted(entry.item.scannedBarcode)
             [] column \in {"cents", "Price"} -> exportPrice(entry.product[1])
             [] column = "Name" ->
                   quoted(finalName \o <<" ">>
                          \o SelectSeq(entry.product[1].bottleSize,
                                       LAMBDA c : c \notin WhiteSpace \cup {"\n"}))
             [] column = "size" -> quoted(stripZeros(entry.product[1].liquorCode))
             [] column \in DOMAIN ptouchLiterals -> ptouchLiterals[column]
             [] OTHER -> ""]

\* [csvHeaders, ...csvRows]: nothing is downloaded when no entry has a
\* product, and also when a product's bottleSize is null, bottleSize.replace
\* throwing inside the try block
ptouchCsv(entries, names) ==
    IF \E i \in 1..Len(entries) :
          entries[i].product # <<>> /\ entries[i].product[1].bottleSize = Null
    THEN <<>>
    ELSE LET rows == [i \in 1..Len(entries) |-> ptouchRow(entries[i], names[i])]
         IN IF entries = <<>> THEN <<>> ELSE <<ptouchColumns>> \o rows

\* customMappings[code]: each mapping is stored under its UPC and under its
\* UPC without leading zeros, a later mapping overwriting an earlier one;
\* <<>> for undefined
customMapping(mappings, code) ==
    LET under == {i \in 1..Len(mappings) :
                     code \in {mappings[i].upcCode, stripZeros(mappings[i].upcCode)}}
    IN IF under = {} THEN <<>> ELSE mappings[Greatest(under)].customName

\* the custom name of an entry: by scanned barcode, then UPC1, then UPC2;
\* <<>> for null
customName(mappings, entry) ==
    IF OrStr(entry.item.scannedBarcode, <<>>) # <<>>
       /\ customMapping(mappings, entry.item.scannedBarcode) # <<>>
    THEN customMapping(mappings, entry.item.scannedBarcode)
    ELSE IF OrStr(entry.product[1].upcCode1, <<>>) # <<>>
            /\ customMapping(mappings, entry.product[1].upcCode1) # <<>>
    THEN customMapping(mappings, entry.product[1].upcCode1)
    ELSE IF OrStr(entry.product[1].upcCode2, <<>>) # <<>>
            /\ customMapping(mappings, entry.product[1].upcCode2) # <<>>
    THEN customMapping(mappings, entry.product[1].upcCode2)
    ELSE <<>>

\* customName || item.product.brandName
finalName(mappings, entry) ==
    OrStr(customName(mappings, entry), entry.product[1].brandName)

Replace(seq, keys, new) ==
    [i \in 1..Len(seq) |-> IF i \in keys THEN new ELSE seq[i]]

\* updateScannedItemPrice writing the new price into the linked record itself
updateScannedItemPriceInPlace(records, items, itemId, newPrice, newRecordId) ==
    LET item == Find(SelectSeq(items, LAMBDA it : it.id = itemId))
        liquorRecord ==
            IF item # <<>> /\ item[1].liquorRecordId # NoId
            THEN Find(SelectSeq(records, LAMBDA r : r.key = item[1].liquorRecordId))
            ELSE <<>>
    IN IF item = <<>> \/ liquorRecord = <<>>
       THEN [ret |-> FALSE, liquorRecords |-> records, scannedItems |-> items]
       ELSE [ret |-> TRUE,
             liquorRecords |-> Replace(records, {i \in 1..Len(records) : records[i].key = item[1].liquorRecordId},
                                       [liquorRecord[1] EXCEPT !.shelfPrice = Num(newPrice)]),
             scannedItems |-> items]

\* updateScannedItemPrice repointing the item although its record is gone
updateScannedItemPriceRepointsOrphan(records, items, itemId, newPrice, newRecordId) ==
    LET item == Find(SelectSeq(items, LAMBDA it : it.id = itemId))
    IN IF item = <<>>
       THEN [ret |-> FALSE, liquorRecords |-> records, scannedItems |-> items]
       ELSE [ret |-> TRUE,
             liquorRecords |-> records,
             scannedItems |-> Replace(items, {i \in 1..Len(items) : items[i].id = itemId},
                                      [item[1] EXCEPT !.liquorRecordId = newRecordId])]

\* updateScannedItemPrice putting the copy in front of the catalog
updateScannedItemPriceCopyFirst(records, items, itemId, newPrice, newRecordId) ==
    LET item == Find(SelectSeq(items, LAMBDA it : it.id = itemId))
        liquorRecord ==
            IF item # <<>> /\ item[1].liquorRecordId # NoId
            THEN Find(SelectSeq(records, LAMBDA r : r.key = item[1].liquorRecordId))
            ELSE <<>>
    IN IF item = <<>> \/ liquorRecord = <<>>
       THEN [ret |-> FALSE, liquorRecords |-> records, scannedItems |-> items]
       ELSE [ret |-> TRUE,
             liquorRecords |-> <<[liquorRecord[1] EXCEPT !.shelfPrice = Num(newPrice),
                                                         !.key = newRecordId]>> \o records,
             scannedItems |-> Replace(items, {i \in 1..Len(items) : items[i].id = itemId},
                                      [item[1] EXCEPT !.liquorRecordId = newRecordId])]

updateScannedItemPrice(records, items, itemId, newPrice, newRecordId) ==
    LET item == Find(SelectSeq(items, LAMBDA it : it.id = itemId))
        liquorRecord ==
            IF item # <<>> /\ item[1].liquorRecordId # NoId
            THEN Find(SelectSeq(records, LAMBDA r : r.key = item[1].liquorRecordId))
            ELSE <<>>
    IN IF item = <<>> \/ liquorRecord = <<>>
       THEN [ret |-> FALSE, liquorRecords |-> records, scannedItems |-> items]
       ELSE LET \* { ...liquorRecord, shelfPrice: newPrice }: the copy keeps the id field
                updatedRecord == [liquorRecord[1] EXCEPT !.shelfPrice = Num(newPrice)]
                updatedItem == [item[1] EXCEPT !.liquorRecordId = newRecordId]
            IN [ret |-> TRUE,
                liquorRecords |-> Append(records, [updatedRecord EXCEPT !.key = newRecordId]),
                scannedItems |-> Replace(items, {i \in 1..Len(items) : items[i].id = itemId}, updatedItem)]

createSession(id, name) ==
    [id |-> id, name |-> name, itemCount |-> 0, isActive |-> 1]

\* deleteSession without the cascade to the session's scanned items
deleteSessionNoCascade(sess, active, items, sessionId) ==
    LET deleted == \E i \in 1..Len(sess) : sess[i].id = sessionId
    IN [ret |-> deleted,
        sessions |-> SelectSeq(sess, LAMBDA x : x.id # sessionId),
        activeSessionId |-> IF deleted /\ active = sessionId THEN NoId ELSE active,
        scannedItems |-> items]

\* deleteSession leaving activeSessionId as it is
deleteSessionKeepsActive(sess, active, items, sessionId) ==
    [ret |-> \E i \in 1..Len(sess) : sess[i].id = sessionId,
     sessions |-> SelectSeq(sess, LAMBDA x : x.id # sessionId),
     activeSessionId |-> active,
     scannedItems |-> clearScannedItems(items, sessionId)]

deleteSession(sess, active, items, sessionId) ==
    LET deleted == \E i \in 1..Len(sess) : sess[i].id = sessionId
    IN [ret |-> deleted,
        sessions |-> SelectSeq(sess, LAMBDA x : x.id # sessionId),
        activeSessionId |-> IF deleted /\ active = sessionId THEN NoId ELSE active,
        scannedItems |-> clearScannedItems(items, sessionId)]

\* setActiveSession without the sessions.has(sessionId) test
setActiveSessionAnyId(sess, active, sessionId) == sessionId

setActiveSession(sess, active, sessionId) ==
    IF \E i \in 1..Len(sess) : sess[i].id = sessionId THEN sessionId ELSE active

getActiveSession(sess, active) ==
    IF active # NoId THEN Find(SelectSeq(sess, LAMBDA x : x.id = active)) ELSE <<>>

----------------------------------------------------------------------------
(* Request handlers: pure parts *)

\* the scan handler storing the catalog's UPC instead of the scanned string
scanBarcodeItemsCatalogUpc(items, matchedProduct, sessionId, barcode, id) ==
    IF matchedProduct # <<>> /\ sessionId # NoId
    THEN addScannedItem(items, id, sessionId, matchedProduct[1].id,
                        matchedProduct[1].upcCode1, 1)
    ELSE items

\* POST /api/scan-barcode after the lookup: the scanned items it leaves
scanBarcodeItems(items, matchedProduct, sessionId, barcode, id) ==
    IF matchedProduct # <<>> /\ sessionId # NoId
    THEN addScannedItem(items, id, sessionId, matchedProduct[1].id, barcode, 1)
    ELSE items

\* POST /api/add-item: the record it finds in its snapshot of the catalog
addItemRecord(records, liquorRecordId, sessionId) ==
    IF liquorRecordId = NoId \/ sessionId = NoId THEN <<>>
    ELSE Find(SelectSeq(records, LAMBDA r : r.id = liquorRecordId))

ManualSearch == <<"m">>

\* the add-item handler recording nothing when no barcode string is supplied
addItemItemsNeedsBarcode(items, liquorRecord, sessionId, scannedBarcode, id) ==
    IF liquorRecord = <<>> \/ scannedBarcode = <<>> THEN items
    ELSE addScannedItem(items, id, sessionId, liquorRecord[1].id, scannedBarcode, 1)

\* POST /api/add-item after the lookup: the scanned items it leaves
addItemItems(items, liquorRecord, sessionId, scannedBarcode, id) ==
    IF liquorRecord = <<>> THEN items
    ELSE addScannedItem(items, id, sessionId, liquorRecord[1].id,
                        OrStr(scannedBarcode, OrStr(liquorRecord[1].upcCode1, ManualSearch)), 1)

SessionIds == {sessions[i].id : i \in 1..Len(sessions)}
ItemIds == {scannedItems[i].id : i \in 1..Len(scannedItems)}
RecordIds == {liquorRecords[i].id : i \in 1..Len(liquorRecords)}

Idle == [pc |-> "idle", kind |-> "none", barcode |-> <<>>, sessionId |-> NoId,
         matched |-> <<>>, items |-> <<>>]
\* ing[k].rows are the parsed records of request k, ing[k].todo those not yet
\* inserted, ing[k].old the catalog the request found
NoIngest == [pc |-> "idle", todo |-> <<>>, old |-> <<>>, rows |-> <<>>]
\* the request slots: one file upload (POST /api/process-file and
\* /api/process-file-content) and one download (POST /api/fetch-liquor-data)
Upload == 1
Download == 2
Ingests == {Upload, Download}
\* del.only records whether the deleted session was the only one, del.active
\* whether it was the store's active session
NoDelete == [pc |-> "idle", id |-> NoId, only |-> FALSE, active |-> FALSE,
             created |-> NoId]
\* the outcome of a completed operation: its name, its result, the id it
\* was about and the number of scanned items it added or removed
Outcome(op, ret, id, n) == [op |-> op, ret |-> ret, id |-> id, n |-> n]
\* the outcome of a listing: the entries it answered with
ListOutcome(op, ret, id, items) ==
    [op |-> op, ret |-> ret, id |-> id, n |-> Len(items), items |-> items]
Quiet == Outcome("none", FALSE, NoId, 0)

RECURSIVE sum(_, _)
\* prices.reduce((sum, price) => sum + price, 0) over the first n prices
sum(prices, n) == IF n = 0 THEN 0 ELSE sum(prices, n - 1) + prices[n].n

\* Number(avgPrice.toFixed(2)) of the shelf prices that are numbers
avgPrice(records) ==
    LET prices == SelectSeq([i \in 1..Len(records) |-> records[i].shelfPrice],
                            LAMBDA p : p.t \in {"num", "inf"})
    IN IF prices = <<>> THEN Num(0)
       ELSE IF \E i \in 1..Len(prices) : prices[i] = Infinity THEN Infinity
       ELSE Num((2 * sum(prices, Len(prices)) + Len(prices)) \div (2 * Len(prices)))

\* the result an ingestion answers with: the counts and the average price
\* collected while the lines were parsed
ingestResult(k, records) ==
    [op |-> "ingest", ret |-> TRUE, id |-> k, n |-> 0,
     totalRecords |-> Len(records),
     uniqueBrands |-> Cardinality({records[i].brandName : i \in 1..Len(records)} \ {<<>>}),
     uniqueVendors |-> Cardinality({records[i].vendorName : i \in 1..Len(records)} \ {<<>>}),
     avgPrice |-> avgPrice(records)]

----------------------------------------------------------------------------
(* The state after construction *)

Init ==
    /\ liquorRecords = <<>>
    /\ scannedItems = <<>>
    /\ sessions = <<>>
    /\ activeSessionId = NoId
    /\ nextId = [rec |-> 1, item |-> 1, sess |-> 1]
    /\ ing = [k \in Ingests |-> NoIngest]
    /\ req = Idle
    /\ last = Quiet
    /\ currentSessionId = NoId
    /\ sessionsData = {}
    /\ del = NoDelete

\* the store after LoadedFile has been ingested and the request answered
InitLoaded ==
    /\ liquorRecords = [i \in 1..Len(LoadedFile) |-> createLiquorRecord(i, LoadedFile[i])]
    /\ scannedItems = <<>>
    /\ sessions = <<>>
    /\ activeSessionId = NoId
    /\ nextId = [rec |-> Len(LoadedFile) + 1, item |-> 1, sess |-> 1]
    /\ ing = [k \in Ingests |-> NoIngest]
    /\ req = Idle
    /\ last = Quiet
    /\ currentSessionId = NoId
    /\ sessionsData = {}
    /\ del = NoDelete

----------------------------------------------------------------------------
(* Ingestion: POST /api/process-file, /api/process-file-content and        *)
(* /api/fetch-liquor-data share the clear-then-insert loop                 *)

\* the rows are parsed, then clearLiquorRecords() runs up to its await
IngestStart(k, rows) ==
    /\ ing[k].pc = "idle"
    /\ ing' = [ing EXCEPT ![k] = [pc |-> "insert", todo |-> rows,
                                  old |-> liquorRecords, rows |-> rows]]
    /\ liquorRecords' = <<>>
    /\ UNCHANGED <<scannedItems, sessions, activeSessionId, nextId, req, last>>
    /\ UNCHANGED sidebarVars

\* one iteration of the loop: createLiquorRecord(record) up to its await
IngestInsert(k) ==
    /\ ing[k].pc = "insert"
    /\ ing[k].todo # <<>>
    /\ nextId.rec <= MaxRecords
    /\ liquorRecords' = Append(liquorRecords, createLiquorRecord(nextId.rec, Head(ing[k].todo)))
    /\ nextId' = [nextId EXCEPT !.rec = @ + 1]
    /\ ing' = [ing EXCEPT ![k].todo = Tail(ing[k].todo)]
    /\ UNCHANGED <<scannedItems, sessions, activeSessionId, req, last>>
    /\ UNCHANGED sidebarVars

\* the loop is over: res.json(result)
IngestRespond(k) ==
    /\ ing[k].pc = "insert"
    /\ ing[k].todo = <<>>
    /\ ing' = [ing EXCEPT ![k] = NoIngest]
    /\ last' = ingestResult(k, ing[k].rows)
    /\ UNCHANGED <<storeVars, req>>
    /\ UNCHANGED sidebarVars

\* POST /api/process-file-content: a request without content is answered
\* 400; otherwise the non-blank lines are parsed and the catalog is cleared
ProcessFileContent(content) ==
    IF content = << <<>> >>
    THEN /\ ing[Upload].pc = "idle"
         /\ last' = Outcome("noContent", FALSE, Upload, 0)
         /\ UNCHANGED <<storeVars, ing, req>>
         /\ UNCHANGED sidebarVars
    ELSE IngestStart(Upload, Parsed[content])

\* the download route clearing the catalog before it fetches
FetchStartClearsFirst(k) ==
    /\ ing[k].pc = "idle"
    /\ ing' = [ing EXCEPT ![k].pc = "fetch"]
    /\ liquorRecords' = <<>>
    /\ UNCHANGED <<scannedItems, sessions, activeSessionId, nextId, req, last>>
    /\ UNCHANGED sidebarVars

\* POST /api/fetch-liquor-data up to `await fetch(url)`
FetchStart(k) ==
    /\ ing[k].pc = "idle"
    /\ ing' = [ing EXCEPT ![k].pc = "fetch"]
    /\ UNCHANGED <<storeVars, req, last>>
    /\ UNCHANGED sidebarVars

\* fetch rejects, response.ok is false or response.text() rejects: the
\* catch block answers 500
FetchFail(k) ==
    /\ ing[k].pc = "fetch"
    /\ ing' = [ing EXCEPT ![k] = NoIngest]
    /\ last' = Outcome("fetchFailed", FALSE, k, 0)
    /\ UNCHANGED <<storeVars, req>>
    /\ UNCHANGED sidebarVars

\* the download has arrived: the lines are parsed, then
\* clearLiquorRecords() runs up to its await
FetchDone(k, rows) ==
    /\ ing[k].pc = "fetch"
    /\ ing' = [ing EXCEPT ![k] = [pc |-> "insert", todo |-> rows,
                                  old |-> liquorRecords, rows |-> rows]]
    /\ liquorRecords' = <<>>
    /\ UNCHANGED <<scannedItems, sessions, activeSessionId, nextId, req, last>>
    /\ UNCHANGED sidebarVars

----------------------------------------------------------------------------
(* POST /api/scan-barcode *)

ScanStart(barcode, sessionId) ==
    /\ req.pc = "idle"
    /\ IF barcode = <<>>
       THEN /\ last' = Quiet
            /\ UNCHANGED req
       ELSE /\ req' = [Idle EXCEPT !.pc = "lookup", !.kind = "scan",
                                   !.barcode = barcode, !.sessionId = sessionId]
            /\ UNCHANGED last
    /\ UNCHANGED <<storeVars, ing>>
    /\ UNCHANGED sidebarVars

ScanFind ==
    /\ req.pc = "lookup"
    /\ req.kind = "scan"
    /\ IF req.barcode = TestCheckOnly
       THEN /\ req' = Idle
            /\ last' = Quiet
       ELSE /\ req' = [req EXCEPT !.pc = "found",
                                  !.matched = findLiquorByBarcode(liquorRecords, req.barcode)]
            /\ UNCHANGED last
    /\ UNCHANGED <<storeVars, ing>>
    /\ UNCHANGED sidebarVars

ScanFinish ==
    /\ req.pc = "found"
    /\ req.kind = "scan"
    /\ nextId.item <= MaxItems
    /\ scannedItems' = scanBarcodeItems(scannedItems, req.matched, req.sessionId,
                                        req.barcode, nextId.item)
    /\ nextId' = IF scannedItems' # scannedItems
                 THEN [nextId EXCEPT !.item = @ + 1] ELSE nextId
    /\ last' = IF req.matched # <<>>
               THEN Outcome("scanFound", TRUE, req.matched[1].id,
                            Len(scannedItems') - Len(scannedItems))
               ELSE Outcome("scanNotFound", FALSE, NoId, 0)
    /\ req' = Idle
    /\ UNCHANGED <<liquorRecords, sessions, activeSessionId, ing>>
    /\ UNCHANGED sidebarVars

----------------------------------------------------------------------------
(* POST /api/add-item *)

AddItemStart(liquorRecordId, sessionId, scannedBarcode) ==
    /\ req.pc = "idle"
    /\ IF liquorRecordId = NoId \/ sessionId = NoId
       THEN /\ last' = Quiet
            /\ UNCHANGED req
       ELSE /\ req' = [Idle EXCEPT !.pc = "found", !.kind = "add",
                                   !.barcode = scannedBarcode, !.sessionId = sessionId,
                                   !.matched = addItemRecord(liquorRecords, liquorRecordId, sessionId)]
            /\ UNCHANGED last
    /\ UNCHANGED <<storeVars, ing>>
    /\ UNCHANGED sidebarVars

AddItemFinish ==
    /\ req.pc = "found"
    /\ req.kind = "add"
    /\ nextId.item <= MaxItems
    /\ scannedItems' = addItemItems(scannedItems, req.matched, req.sessionId,
                                    req.barcode, nextId.item)
    /\ nextId' = IF scannedItems' # scannedItems
                 THEN [nextId EXCEPT !.item = @ + 1] ELSE nextId
    /\ last' = IF req.matched # <<>>
               THEN Outcome("addItem", TRUE, req.matched[1].id,
                            Len(scannedItems') - Len(scannedItems))
               ELSE Outcome("addItem404", FALSE, NoId, 0)
    /\ req' = Idle
    /\ UNCHANGED <<liquorRecords, sessions, activeSessionId, ing>>
    /\ UNCHANGED sidebarVars


----------------------------------------------------------------------------
(* Scanned items and price override *)

\* DELETE /api/scanned-items/:sessionId/:itemId
DeleteItem(itemId) ==
    /\ scannedItems' = deleteScannedItem(scannedItems, itemId)
    /\ last' = Outcome("deleteItem", scannedItems' # scannedItems, itemId,
                       Len(scannedItems) - Len(scannedItems'))
    /\ UNCHANGED <<liquorRecords, sessions, activeSessionId, nextId, ing, req>>
    /\ UNCHANGED sidebarVars

\* DELETE /api/scanned-items/:sessionId
ClearItems(sessionId) ==
    /\ scannedItems' = clearScannedItems(scannedItems, sessionId)
    /\ last' = Outcome("clearItems", TRUE, sessionId,
                       Len(scannedItems) - Len(scannedItems'))
    /\ UNCHANGED <<liquorRecords, sessions, activeSessionId, nextId, ing, req>>
    /\ UNCHANGED sidebarVars

\* MemStorage.updateScannedItemPrice(itemId, newPrice)
UpdatePrice(itemId, newPrice) ==
    /\ nextId.rec <= MaxRecords
    /\ LET r == updateScannedItemPrice(liquorRecords, scannedItems, itemId, newPrice, nextId.rec)
       IN /\ liquorRecords' = r.liquorRecords
          /\ scannedItems' = r.scannedItems
          /\ nextId' = IF r.ret THEN [nextId EXCEPT !.rec = @ + 1] ELSE nextId
          /\ last' = Outcome("updatePrice", r.ret, itemId, 0)
    /\ UNCHANGED <<sessions, activeSessionId, ing, req>>
    /\ UNCHANGED sidebarVars

\* parseFloat(editPrice) for the texts of the price input
editedPrice == [editPrice \in EditPrices |-> parseFloat(editPrice)]

\* saveEditedPrice sending every text it can parse
SaveEditedPriceUnchecked(itemId, editPrice) ==
    UpdatePrice(itemId, IF editedPrice[editPrice] = NaN THEN 0 ELSE editedPrice[editPrice].n)

\* ScannedItemsList.saveEditedPrice: an empty text, a text that does not
\* parse and a negative price are turned down before a request is sent;
\* otherwise PATCH /api/update-item-price reaches updateScannedItemPrice
SaveEditedPrice(itemId, editPrice) ==
    /\ IF \/ editPrice = <<>>
          \/ editedPrice[editPrice] = NaN
          \/ (editedPrice[editPrice].t = "num" /\ editedPrice[editPrice].n < 0)
       THEN /\ last' = Outcome("invalidPrice", FALSE, itemId, 0)
            /\ UNCHANGED <<storeVars, ing, req>>
            /\ UNCHANGED sidebarVars
       ELSE UpdatePrice(itemId, editedPrice[editPrice].n)

\* GET /api/scanned-items/:sessionId up to `await storage.getScannedItems`
ListStart(sessionId) ==
    /\ req.pc = "idle"
    /\ req' = [Idle EXCEPT !.pc = "join", !.kind = "list", !.sessionId = sessionId,
                           !.items = getScannedItems(scannedItems, sessionId)]
    /\ UNCHANGED <<storeVars, ing, last>>
    /\ UNCHANGED sidebarVars

\* the join against getLiquorRecords() and res.json
ListJoin ==
    /\ req.pc = "join"
    /\ req.kind = "list"
    /\ last' = ListOutcome("list", TRUE, req.sessionId,
                           scannedItemsWithDetails(liquorRecords, req.items))
    /\ req' = Idle
    /\ UNCHANGED <<storeVars, ing>>
    /\ UNCHANGED sidebarVars

\* POST /api/generate-labels up to `await storage.getScannedItems`
LabelsStart(sessionId) ==
    /\ req.pc = "idle"
    /\ IF sessionId = NoId
       THEN /\ last' = Quiet
            /\ UNCHANGED req
       ELSE /\ req' = [Idle EXCEPT !.pc = "join", !.kind = "labels",
                                   !.sessionId = sessionId,
                                   !.items = getScannedItems(scannedItems, sessionId)]
            /\ UNCHANGED last
    /\ UNCHANGED <<storeVars, ing>>
    /\ UNCHANGED sidebarVars

\* getLiquorRecords(), the join, and the labels or 400 "No items to print"
LabelsJoin ==
    /\ req.pc = "join"
    /\ req.kind = "labels"
    /\ LET itemsWithDetails == labelItems(liquorRecords, req.items)
       IN last' = ListOutcome("labels", itemsWithDetails # <<>>, req.sessionId,
                              itemsWithDetails)
    /\ req' = Idle
    /\ UNCHANGED <<storeVars, ing>>
    /\ UNCHANGED sidebarVars

\* the outcome of an export: the listing the component holds and the
\* lines of the CSV it downloaded, <<>> when it downloaded none
ExportOutcome(op, items, csv) ==
    [op |-> op, ret |-> csv # <<>>, id |-> last.id, n |-> Len(csv),
     items |-> items, csv |-> csv]

\* the component holds the listing it was rendered with
Listed == last.op \in {"list", "ptouch", "ptouchCustom"}

\* ScannedItemsList.exportForPTouch over the listing
ExportPTouch ==
    /\ Listed
    /\ LET entries == SelectSeq(last.items, LAMBDA e : e.product # <<>>)
       IN last' = ExportOutcome("ptouch", last.items,
                     ptouchCsv(entries, [i \in 1..Len(entries) |->
                                            entries[i].product[1].brandName]))
    /\ UNCHANGED <<storeVars, ing, req>>
    /\ UNCHANGED sidebarVars

\* ScannedItemsList.exportForPTouchWithCustomNames over the listing, given
\* the mappings GET /api/custom-names answered with (none when the request
\* failed)
ExportCustomNames(mappings) ==
    /\ Listed
    /\ LET entries == SelectSeq(last.items, LAMBDA e : e.product # <<>>)
       IN last' = ExportOutcome("ptouchCustom", last.items,
                     ptouchCsv(entries, [i \in 1..Len(entries) |->
                                            finalName(mappings, entries[i])]))
    /\ UNCHANGED <<storeVars, ing, req>>
    /\ UNCHANGED sidebarVars

----------------------------------------------------------------------------
(* Sessions *)

\* createSession leaving the active-session pointer where it was
CreateSessionKeepsActive(name) ==
    /\ nextId.sess <= MaxSessions
    /\ sessions' = Append(sessions, createSession(nextId.sess, name))
    /\ nextId' = [nextId EXCEPT !.sess = @ + 1]
    /\ last' = Quiet
    /\ UNCHANGED <<liquorRecords, scannedItems, activeSessionId, ing, req>>
    /\ UNCHANGED sidebarVars

\* MemStorage.createSession({ name })
CreateSession(name) ==
    /\ nextId.sess <= MaxSessions
    /\ sessions' = Append(sessions, createSession(nextId.sess, name))
    /\ activeSessionId' = nextId.sess
    /\ nextId' = [nextId EXCEPT !.sess = @ + 1]
    /\ last' = Quiet
    /\ UNCHANGED <<liquorRecords, scannedItems, ing, req>>
    /\ UNCHANGED sidebarVars

\* MemStorage.deleteSession(sessionId)
DeleteSession(sessionId) ==
    /\ LET r == deleteSession(sessions, activeSessionId, scannedItems, sessionId)
       IN /\ sessions' = r.sessions
          /\ activeSessionId' = r.activeSessionId
          /\ scannedItems' = r.scannedItems
          /\ last' = Outcome("deleteSession", r.ret, sessionId,
                              Len(scannedItems) - Len(r.scannedItems))
    /\ UNCHANGED <<liquorRecords, nextId, ing, req>>
    /\ UNCHANGED sidebarVars

\* MemStorage.setActiveSession(sessionId)
SetActiveSession(sessionId) ==
    /\ activeSessionId' = setActiveSession(sessions, activeSessionId, sessionId)
    /\ last' = Quiet
    /\ UNCHANGED <<liquorRecords, scannedItems, sessions, nextId, ing, req>>
    /\ UNCHANGED sidebarVars

\* POST /api/sessions/:id/activate: an unknown id is answered with a
\* not-found error, a known one is made the active session and returned
ActivateSession(sessionId) ==
    /\ activeSessionId' = setActiveSession(sessions, activeSessionId, sessionId)
    /\ last' = Outcome("activate", sessionId \in SessionIds, sessionId, 0)
    /\ UNCHANGED <<liquorRecords, scannedItems, sessions, nextId, ing, req>>
    /\ UNCHANGED sidebarVars

----------------------------------------------------------------------------
(* SessionSidebar: the session list, create and the delete flow.  The      *)
(* requests it sends reach MemStorage.createSession and                    *)
(* MemStorage.deleteSession.                                               *)

\* the page that renders the sidebar keeps the id handed to onSessionChange
onSessionChange(sessionId) == currentSessionId' = sessionId

\* useQuery(['/api/sessions']): refetched every 5 s and after invalidation
Refetch ==
    /\ sessionsData' = SessionIds
    /\ UNCHANGED <<storeVars, ing, req, last, currentSessionId, del>>

\* createSessionMutation: POST /api/sessions, then onSuccess
SidebarCreate(name) ==
    /\ del.pc # "creating"
    /\ nextId.sess <= MaxSessions
    /\ sessions' = Append(sessions, createSession(nextId.sess, name))
    /\ activeSessionId' = nextId.sess
    /\ nextId' = [nextId EXCEPT !.sess = @ + 1]
    /\ onSessionChange(nextId.sess)
    /\ last' = Quiet
    /\ UNCHANGED <<liquorRecords, scannedItems, ing, req, sessionsData, del>>

\* deleteSessionMutation.mutationFn for a listed session: DELETE /api/sessions/:id
SidebarDelete(sessionId) ==
    /\ del.pc \in {"idle", "done"}
    /\ sessionId \in sessionsData
    /\ LET r == deleteSession(sessions, activeSessionId, scannedItems, sessionId)
       IN /\ sessions' = r.sessions
          /\ activeSessionId' = r.activeSessionId
          /\ scannedItems' = r.scannedItems
          /\ last' = Outcome("deleteSession", r.ret, sessionId,
                              Len(scannedItems) - Len(r.scannedItems))
    /\ del' = [NoDelete EXCEPT !.pc = "deleted", !.id = sessionId,
                               !.only = (SessionIds = {sessionId}),
                               !.active = (sessionId \in SessionIds
                                             /\ activeSessionId = sessionId)]
    /\ UNCHANGED <<liquorRecords, nextId, ing, req, currentSessionId, sessionsData>>

\* deleteSessionMutation.onSuccess
SidebarDeleteSuccess ==
    /\ del.pc = "deleted"
    /\ LET remainingSessions == sessionsData \ {del.id}
       IN IF del.id = currentSessionId
          THEN IF remainingSessions # {}
               THEN \* remainingSessions[0]: the list order (updatedAt) is not modelled
                    /\ \E s \in remainingSessions : onSessionChange(s)
                    /\ del' = [del EXCEPT !.pc = "done"]
               ELSE /\ del' = [del EXCEPT !.pc = "creating"]
                    /\ UNCHANGED currentSessionId
          ELSE /\ del' = [del EXCEPT !.pc = "done"]
               /\ UNCHANGED currentSessionId
    /\ UNCHANGED <<storeVars, ing, req, last, sessionsData>>

\* createSessionMutation.mutate(defaultName) issued by the delete flow
SidebarAutoCreate ==
    /\ del.pc = "creating"
    /\ nextId.sess <= MaxSessions
    /\ sessions' = Append(sessions, createSession(nextId.sess, DefaultName))
    /\ activeSessionId' = nextId.sess
    /\ nextId' = [nextId EXCEPT !.sess = @ + 1]
    /\ onSessionChange(nextId.sess)
    /\ del' = [del EXCEPT !.pc = "done", !.created = nextId.sess]
    /\ last' = Quiet
    /\ UNCHANGED <<liquorRecords, scannedItems, ing, req, sessionsData>>

\* activateSessionMutation for a listed session that is not the current
\* one: POST /api/sessions/:id/activate, then onSuccess; an unknown id is
\* answered without a session and changes nothing
SidebarActivate(sessionId) ==
    /\ sessionId \in sessionsData
    /\ sessionId # currentSessionId
    /\ activeSessionId' = setActiveSession(sessions, activeSessionId, sessionId)
    /\ IF sessionId \in SessionIds
       THEN onSessionChange(sessionId)
       ELSE UNCHANGED currentSessionId
    /\ last' = Quiet
    /\ UNCHANGED <<liquorRecords, scannedItems, sessions, nextId, ing, req,
                   sessionsData, del>>

NextSidebar ==
    \/ Refetch
    \/ \E name \in Names : SidebarCreate(name)
    \/ \E sessionId \in sessionsData : SidebarActivate(sessionId)
    \/ \E sessionId \in sessionsData : SidebarDelete(sessionId)
    \/ SidebarDeleteSuccess
    \/ SidebarAutoCreate

SpecSidebar == Init /\ [][NextSidebar]_vars

----------------------------------------------------------------------------
(* Scanned items, price overrides and sessions over a loaded catalog *)

Next ==
    \/ \E sessionId \in SessionIds \cup {UnknownId} : ScanStart(<<"1">>, sessionId)
    \/ ScanFind
    \/ ScanFinish
    \/ \E itemId \in ItemIds \cup {UnknownId} : DeleteItem(itemId)
    \/ \E sessionId \in SessionIds \cup {UnknownId} : ClearItems(sessionId)
    \/ \E itemId \in ItemIds \cup {UnknownId}, newPrice \in Prices : UpdatePrice(itemId, newPrice)
    \/ \E name \in Names : CreateSession(name)
    \/ \E sessionId \in SessionIds \cup {UnknownId} : DeleteSession(sessionId)
    \/ \E sessionId \in SessionIds \cup {UnknownId} : SetActiveSession(sessionId)
    \/ \E sessionId \in SessionIds \cup {UnknownId} : ActivateSession(sessionId)

Spec == InitLoaded /\ [][Next]_vars

----------------------------------------------------------------------------
(* The scan and add-item requests against a loaded catalog *)

NextScan ==
    \/ \E barcode \in ScanBarcodes, sessionId \in {NoId, UnknownId} :
          ScanStart(barcode, sessionId)
    \/ ScanFind
    \/ ScanFinish
    \/ \E liquorRecordId \in RecordIds \cup {NoId, UnknownId},
          sessionId \in {NoId, UnknownId},
          scannedBarcode \in AddBarcodes :
             AddItemStart(liquorRecordId, sessionId, scannedBarcode)
    \/ AddItemFinish
    \/ \E itemId \in ItemIds : DeleteItem(itemId)

SpecScan == InitLoaded /\ [][NextScan]_vars

----------------------------------------------------------------------------
(* The catalog under an ingestion and concurrent barcode lookups *)

NextCatalog ==
    \/ \E rows \in Files : IngestStart(Upload, rows)
    \/ IngestInsert(Upload)
    \/ IngestRespond(Upload)
    \/ \E barcode \in Barcodes : ScanStart(barcode, NoId)
    \/ ScanFind
    \/ ScanFinish

SpecCatalog == Init /\ [][NextCatalog]_vars

----------------------------------------------------------------------------
(* Catalog replacement under scans, price overrides and listings *)

Row(name) == CHOOSE r \in Rows : r.brandName = <<name>>
ReplaceFiles == {<<Row("A")>>, <<Row("B"), Row("A")>>}

NextReplace ==
    \/ \E rows \in ReplaceFiles : IngestStart(Upload, rows)
    \/ \E k \in Ingests : IngestInsert(k)
    \/ \E k \in Ingests : IngestRespond(k)
    \/ FetchStart(Download)
    \/ FetchFail(Download)
    \/ \E rows \in ReplaceFiles : FetchDone(Download, rows)
    \/ ScanStart(<<"1">>, UnknownId)
    \/ ScanFind
    \/ ScanFinish
    \/ \E itemId \in ItemIds \cup {UnknownId} : UpdatePrice(itemId, 7)
    \/ ListStart(UnknownId)
    \/ ListJoin
    \/ \E sessionId \in {NoId, UnknownId} : LabelsStart(sessionId)
    \/ LabelsJoin

SpecReplace == Init /\ [][NextReplace]_vars

----------------------------------------------------------------------------
(* Price overrides on events whose record a later upload has discarded *)

NextOrphan ==
    \/ \E rows \in ReplaceFiles : IngestStart(Upload, rows)
    \/ IngestInsert(Upload)
    \/ IngestRespond(Upload)
    \/ \E sessionId \in SessionIds \cup {UnknownId} : ScanStart(<<"1">>, sessionId)
    \/ ScanFind
    \/ ScanFinish
    \/ \E itemId \in ItemIds \cup {UnknownId}, newPrice \in Prices : UpdatePrice(itemId, newPrice)
    \/ \E name \in Names : CreateSession(name)

SpecOrphan == Init /\ [][NextOrphan]_vars

----------------------------------------------------------------------------
(* Uploads of fixed-width files *)

NextParse ==
    \/ \E content \in Contents : ProcessFileContent(content)
    \/ IngestInsert(Upload)
    \/ IngestRespond(Upload)

SpecParse == Init /\ [][NextParse]_vars

----------------------------------------------------------------------------
(* Label exports of a listing *)

NextExport ==
    \/ \E rows \in ExportFiles : IngestStart(Upload, rows)
    \/ IngestInsert(Upload)
    \/ IngestRespond(Upload)
    \/ \E barcode \in ExportBarcodes : ScanStart(barcode, UnknownId)
    \/ ScanFind
    \/ ScanFinish
    \/ ListStart(UnknownId)
    \/ ListJoin
    \/ ExportPTouch
    \/ \E mappings \in MappingLists : ExportCustomNames(mappings)

SpecExport == Init /\ [][NextExport]_vars

----------------------------------------------------------------------------
(* The download route on its own.  The steps the handler takes by itself,  *)
(* the insert loop and the answer, are taken when they stay enabled; the   *)
(* arrival of the response and the rejection of the fetch are events of    *)
(* the external source, and the handler passes no AbortSignal and sets no  *)
(* timer that would bring either of them about.                            *)

NextFetch ==
    \/ FetchStart(Download)
    \/ FetchFail(Download)
    \/ \E rows \in Files : FetchDone(Download, rows)
    \/ IngestInsert(Download)
    \/ IngestRespond(Download)

SpecFetch ==
    /\ Init
    /\ [][NextFetch]_vars
    /\ WF_vars(IngestInsert(Download))
    /\ WF_vars(IngestRespond(Download))

----------------------------------------------------------------------------
(* Price edits made in the scanned items list *)

NextEdit ==
    \/ \E rows \in ReplaceFiles : IngestStart(Upload, rows)
    \/ IngestInsert(Upload)
    \/ IngestRespond(Upload)
    \/ ScanStart(<<"1">>, UnknownId)
    \/ ScanFind
    \/ ScanFinish
    \/ \E itemId \in ItemIds \cup {UnknownId}, editPrice \in EditPrices :
          SaveEditedPrice(itemId, editPrice)

SpecEdit == Init /\ [][NextEdit]_vars

----------------------------------------------------------------------------
(* Properties of the catalog (SpecCatalog) *)

\* a lookup by POST /api/scan-barcode takes place in this step
Lookup == ScanFind /\ req'.pc = "found"

\* C1: a barcode lookup that runs while an ingestion is in progress sees the
\* complete old catalog or the complete new one, never an empty or partly
\* filled catalog.
AtomicReplace ==
    [][\A k \in Ingests :
          (Lookup /\ ing[k].pc = "insert")
             => (liquorRecords = ing[k].old \/ ing[k].todo = <<>>)]_vars

ExactMatch(record, code) == record.upcCode1 = code \/ record.upcCode2 = code

\* C4: when some catalog record has a UPC field string-equal to the code,
\* the record findByBarcode returns is one of those exact matches.
ExactMatchFirst ==
    [][(Lookup /\ \E i \in 1..Len(liquorRecords) : ExactMatch(liquorRecords[i], req.barcode))
          => (req'.matched # <<>> /\ ExactMatch(req'.matched[1], req.barcode))]_vars

Zeros(n) == [i \in 1..n |-> "0"]

\* two non-blank digit strings that differ only in leading zeros
ZeroPadEq(a, b) ==
    LET long == IF Len(a) >= Len(b) THEN a ELSE b
        short == IF Len(a) >= Len(b) THEN b ELSE a
    IN short # <<>> /\ long = Zeros(Len(long) - Len(short)) \o short

FieldMatches(field, code) ==
    field # Null /\ field # <<>> /\ (field = code \/ ZeroPadEq(field, code))

RecordHasCode(record, code) ==
    FieldMatches(record.upcCode1, code) \/ FieldMatches(record.upcCode2, code)

\* C5: for a non-empty code findByBarcode returns a record iff some catalog
\* record has a UPC field equal to the code, exactly or up to leading zeros;
\* the record returned is such a catalog record, so never one whose UPC
\* fields are both blank.
FindByBarcodeIff ==
    [][Lookup =>
          /\ (req'.matched # <<>>) <=>
                (\E i \in 1..Len(liquorRecords) : RecordHasCode(liquorRecords[i], req.barcode))
          /\ req'.matched # <<>> =>
                /\ \E i \in 1..Len(liquorRecords) : liquorRecords[i] = req'.matched[1]
                /\ RecordHasCode(req'.matched[1], req.barcode)]_vars

\* "01" has found the record with UPC "001" although a record with UPC "91"
\* comes first in the catalog
FindByBarcodeIffWitness ==
    /\ req.pc = "found"
    /\ req.barcode = <<"0", "1">>
    /\ req.matched # <<>>
    /\ req.matched[1].upcCode1 = <<"0", "0", "1">>
    /\ Len(liquorRecords) = 2
    /\ liquorRecords[1].upcCode1 = <<"9", "1">>
    /\ liquorRecords[2] = req.matched[1]

----------------------------------------------------------------------------
(* Properties of scanned items, price overrides and sessions *)

\* the scanned item with the given id, <<>> when there is none
ItemById(items, itemId) == Find(SelectSeq(items, LAMBDA it : it.id = itemId))

\* C2: updateScanEventPrice(itemId, newPrice) leaves every existing catalog
\* record as it was, and every scan event other than itemId that resolved to
\* a product before the call resolves to the same product after it.
PriceEditFrame ==
    [][\A itemId \in ItemIds \cup {UnknownId}, newPrice \in Prices :
          UpdatePrice(itemId, newPrice) =>
             /\ Len(liquorRecords') >= Len(liquorRecords)
             /\ \A i \in 1..Len(liquorRecords) : liquorRecords'[i] = liquorRecords[i]
             /\ \A i \in 1..Len(scannedItems) :
                   LET before == scannedItems[i]
                       after == ItemById(scannedItems', before.id)
                   IN (before.id # itemId /\ product(liquorRecords, before) # <<>>) =>
                         /\ after # <<>>
                         /\ product(liquorRecords', after[1]) = product(liquorRecords, before)]_vars

\* a price-override copy is in the catalog, the edited event points to it,
\* and an event of another session still resolves to the record it was
\* copied from, at the original price
PriceEditFrameWitness ==
    \E k \in 1..Len(liquorRecords), i, j \in 1..Len(scannedItems) :
        /\ liquorRecords[k].key # liquorRecords[k].id
        /\ scannedItems[i].liquorRecordId = liquorRecords[k].key
        /\ scannedItems[j].liquorRecordId = liquorRecords[k].id
        /\ scannedItems[j].sessionId # scannedItems[i].sessionId
        /\ product(liquorRecords, scannedItems[j]) # <<>>
        /\ product(liquorRecords, scannedItems[j])[1].shelfPrice = Num(5)
        /\ product(liquorRecords, scannedItems[j])[1].key = liquorRecords[k].id

\* C3: after updateScanEventPrice(itemId, newPrice) has returned true, the
\* listing of the item's session resolves the event to a product whose
\* shelfPrice is newPrice and whose other fields are those of the record
\* the event was linked to.
PriceEditShown ==
    [][\A itemId \in ItemIds, newPrice \in Prices :
          (UpdatePrice(itemId, newPrice) /\ nextId'.rec # nextId.rec) =>
             LET before == ItemById(scannedItems, itemId)[1]
                 original == Find(SelectSeq(liquorRecords, LAMBDA r : r.key = before.liquorRecordId))[1]
                 listed == getScannedItems(scannedItems', before.sessionId)
                 after == ItemById(listed, itemId)
             IN /\ after # <<>>
                /\ product(liquorRecords', after[1]) # <<>>
                /\ product(liquorRecords', after[1])[1].shelfPrice = Num(newPrice)
                /\ product(liquorRecords', after[1])[1].brandName = original.brandName
                /\ product(liquorRecords', after[1])[1].upcCode1 = original.upcCode1
                /\ product(liquorRecords', after[1])[1].upcCode2 = original.upcCode2]_vars

\* C8: whenever no request is in flight, every session's itemCount is the
\* number of scan events stored for that session.
ItemCountIsEventCount ==
    (req.pc = "idle" /\ \A k \in Ingests : ing[k].pc = "idle") =>
        \A i \in 1..Len(sessions) :
            sessions[i].itemCount = Len(getScannedItems(scannedItems, sessions[i].id))

\* C9: after deleteSession(id) has returned true the session is not listed
\* any more and no scan event with that sessionId is left in the store.
DeleteSessionCascades ==
    [][\A sessionId \in SessionIds \cup {UnknownId} :
          (DeleteSession(sessionId) /\ last'.ret) =>
             /\ sessionId \notin SessionIds'
             /\ getScannedItems(scannedItems', sessionId) = <<>>]_vars

\* deleteSession has returned true for a session that had scan events, and
\* another session has kept its events
DeleteSessionCascadesWitness ==
    /\ last.op = "deleteSession"
    /\ last.ret
    /\ last.n > 0
    /\ last.id \notin SessionIds
    /\ \E i \in 1..Len(scannedItems) : scannedItems[i].sessionId \in SessionIds

\* C12: createSession(name) appends one session with an id no session had,
\* the given name and itemCount 0, leaves the other sessions as they were,
\* and getActiveSession returns the new session right afterwards.
CreateSessionActive ==
    [][\A name \in Names :
          CreateSession(name) =>
             /\ Len(sessions') = Len(sessions) + 1
             /\ SubSeq(sessions', 1, Len(sessions)) = sessions
             /\ LET new == sessions'[Len(sessions')]
                IN /\ new.id \notin SessionIds
                   /\ new.id # NoId
                   /\ new.name = name
                   /\ new.itemCount = 0
                   /\ getActiveSession(sessions', activeSessionId') = <<new>>]_vars

\* a second session has been created while the first one exists, and it is
\* the active one
CreateSessionActiveWitness ==
    /\ Len(sessions) = 2
    /\ sessions[2].id = nextId.sess - 1
    /\ sessions[2].name = "work"
    /\ sessions[2].itemCount = 0
    /\ getActiveSession(sessions, activeSessionId) = <<sessions[2]>>

\* C13: at most one session carries the isActive mark at any time.
OneSessionMarkedActive ==
    Cardinality({i \in 1..Len(sessions) : sessions[i].isActive = 1}) <= 1

EventsOwned ==
    \A i \in 1..Len(scannedItems) : scannedItems[i].sessionId \in SessionIds

\* C28: the active-session pointer is unset or the id of a session of the
\* session table.
ActiveSessionExists == activeSessionId = NoId \/ activeSessionId \in SessionIds

\* the session the pointer names has survived the deletion of another one,
\* and an activation of an unknown id has been turned down
ActiveSessionExistsWitness ==
    /\ activeSessionId \in SessionIds
    /\ nextId.sess = MaxSessions + 1
    /\ Len(sessions) = 1
    /\ last.op = "activate"
    /\ ~last.ret

\* the items at the positions outside a set, in their order
Remaining(items, dropped) ==
    LET keep == (1..Len(items)) \ dropped
        nth(j) == CHOOSE i \in keep : Cardinality({k \in keep : k < i}) = j - 1
    IN [j \in 1..Cardinality(keep) |-> items[nth(j)]]

\* C29: deleting a scanned item by id removes the one item with that id, if
\* there is one, and answers true iff there was one; clearing a session
\* removes exactly the items of that session.  Both keep every other item
\* in its place in the order, and leave the sessions and the catalog alone.
DeleteFrames ==
    [][/\ \A itemId \in ItemIds \cup {UnknownId} :
             DeleteItem(itemId) =>
                LET hit == {i \in 1..Len(scannedItems) : scannedItems[i].id = itemId}
                IN /\ Cardinality(hit) <= 1
                   /\ last'.ret <=> hit # {}
                   /\ scannedItems' = Remaining(scannedItems, hit)
                   /\ UNCHANGED <<liquorRecords, sessions, activeSessionId>>
       /\ \A sessionId \in SessionIds \cup {UnknownId} :
             ClearItems(sessionId) =>
                LET hit == {i \in 1..Len(scannedItems) :
                               scannedItems[i].sessionId = sessionId}
                IN /\ scannedItems' = Remaining(scannedItems, hit)
                   /\ UNCHANGED <<liquorRecords, sessions, activeSessionId>>]_vars

\* an item has been deleted by its id and an item scanned before it is
\* still there
DeleteFramesWitness ==
    /\ last.op = "deleteItem"
    /\ last.ret
    /\ scannedItems # <<>>
    /\ scannedItems[1].id < last.id

\* C30: a successful price edit changes the result of findByBarcode for no
\* barcode, and the record found for a barcode is always a record of the
\* loaded file with its original price, never a copy made by a price edit;
\* so a scan after the edit records the original record.
LookupsKeepOriginal ==
    /\ [](\A barcode \in Barcodes :
            LET found == findLiquorByBarcode(liquorRecords, barcode)
            IN found # <<>> =>
                  /\ found[1].key <= Len(LoadedFile)
                  /\ found[1].shelfPrice = OrNullPrice(LoadedFile[found[1].key].shelfPrice))
    /\ [][\A itemId \in ItemIds, newPrice \in Prices :
             (UpdatePrice(itemId, newPrice) /\ last'.ret) =>
                \A barcode \in Barcodes :
                   findLiquorByBarcode(liquorRecords', barcode)
                      = findLiquorByBarcode(liquorRecords, barcode)]_vars

\* an event's price has been edited and a scan of the same barcode in
\* another session has then recorded the original record
LookupsKeepOriginalWitness ==
    /\ last.op = "scanFound"
    /\ last.n = 1
    /\ last.id <= Len(LoadedFile)
    /\ Len(scannedItems) = 2
    /\ scannedItems[1].liquorRecordId > Len(LoadedFile)
    /\ scannedItems[2].liquorRecordId = last.id
    /\ scannedItems[1].scannedBarcode = scannedItems[2].scannedBarcode
    /\ scannedItems[1].sessionId # scannedItems[2].sessionId

----------------------------------------------------------------------------
(* Properties of the scan and add-item requests (SpecScan) *)

\* the steps of the request in flight leave the scanned items as they are,
\* except that the step that answers it appends this one event
AppendsOnly(event) ==
    /\ Len(scannedItems') = Len(scannedItems) + 1
    /\ SubSeq(scannedItems', 1, Len(scannedItems)) = scannedItems
    /\ LET new == scannedItems'[Len(scannedItems')]
       IN /\ new.id \notin ItemIds
          /\ [new EXCEPT !.id = NoId] = event

\* C6: a scan request appends a scan event iff the barcode matched a catalog
\* record and a sessionId was supplied: then exactly one event, with that
\* sessionId, the scanned string verbatim, the matched record's id and
\* quantity 1.  An unmatched scan is answered "not found" and leaves the
\* scanned items unchanged.
ScanRecordsEvent ==
    [][/\ Lookup =>
             /\ (req'.matched # <<>>) <=>
                   (\E i \in 1..Len(liquorRecords) : RecordHasCode(liquorRecords[i], req.barcode))
             /\ scannedItems' = scannedItems
       /\ ScanFinish =>
             /\ IF req.matched # <<>> /\ req.sessionId # NoId
                THEN AppendsOnly([id |-> NoId, sessionId |-> req.sessionId,
                                  liquorRecordId |-> req.matched[1].id,
                                  scannedBarcode |-> req.barcode, quantity |-> 1])
                ELSE scannedItems' = scannedItems
             /\ req.matched = <<>> => last'.op = "scanNotFound"]_vars

\* the scan of "1" has recorded an event for the record whose UPC is "001"
ScanRecordsEventWitness ==
    /\ last.op = "scanFound"
    /\ last.n = 1
    /\ LET new == scannedItems[Len(scannedItems)]
       IN /\ new.scannedBarcode = <<"1">>
          /\ new.liquorRecordId = last.id
          /\ product(liquorRecords, new) # <<>>
          /\ product(liquorRecords, new)[1].upcCode1 = <<"0", "0", "1">>

\* C7: add-item with a session id and the id of a record in the catalog
\* records exactly one new scan event for that session and that record,
\* with or without a barcode string; with a record id that is not in the
\* catalog it records no event and answers not-found.
AddItemRecordsEvent ==
    [][/\ \A liquorRecordId \in RecordIds \cup {UnknownId}, sessionId \in {UnknownId},
             scannedBarcode \in AddBarcodes :
             AddItemStart(liquorRecordId, sessionId, scannedBarcode) =>
                /\ req'.pc = "found"
                /\ (req'.matched # <<>>) <=> (liquorRecordId \in RecordIds)
                /\ req'.matched # <<>> => req'.matched[1].id = liquorRecordId
                /\ scannedItems' = scannedItems
       /\ AddItemFinish =>
             IF req.matched # <<>>
             THEN /\ \E barcode \in {req.barcode, req.matched[1].upcCode1, ManualSearch} :
                        AppendsOnly([id |-> NoId, sessionId |-> req.sessionId,
                                     liquorRecordId |-> req.matched[1].id,
                                     scannedBarcode |-> barcode, quantity |-> 1])
                  /\ last'.op = "addItem"
             ELSE /\ scannedItems' = scannedItems
                  /\ last'.op = "addItem404"]_vars

\* add-item without a barcode string has recorded an event for the record
\* whose UPC fields are blank
AddItemRecordsEventWitness ==
    /\ last.op = "addItem"
    /\ last.n = 1
    /\ LET new == scannedItems[Len(scannedItems)]
       IN /\ new.scannedBarcode = ManualSearch
          /\ new.liquorRecordId = last.id
          /\ new.sessionId = UnknownId

----------------------------------------------------------------------------
(* Properties of the session sidebar (SpecSidebar) *)

\* C10: when the delete flow for the only existing session has completed,
\* exactly one session exists, and its id is not the deleted one.
AutoRecreate ==
    [][(del.pc # "done" /\ del'.pc = "done" /\ del'.only) =>
          (Cardinality(SessionIds') = 1 /\ del'.id \notin SessionIds')]_vars

\* C11: when the delete flow for the store's active session has completed,
\* getActiveSession returns an existing session.
ActiveAfterDelete ==
    [][(del.pc # "done" /\ del'.pc = "done" /\ del'.active) =>
          /\ getActiveSession(sessions', activeSessionId') # <<>>
          /\ getActiveSession(sessions', activeSessionId')[1].id \in SessionIds']_vars

----------------------------------------------------------------------------
(* Properties of catalog replacement (SpecOrphan, SpecReplace) *)

\* the catalog holds an entry under the key the item points to
Linked(records, item) ==
    /\ item.liquorRecordId # NoId
    /\ \E k \in 1..Len(records) : records[k].key = item.liquorRecordId

\* C15: updateScanEventPrice on an item id that does not exist, or on an
\* item whose liquorRecordId is null or is not in the current catalog,
\* returns false and leaves the catalog, the scan events and the sessions
\* unchanged.
PriceEditFails ==
    [][\A itemId \in ItemIds \cup {UnknownId}, newPrice \in Prices :
          UpdatePrice(itemId, newPrice) =>
             LET item == ItemById(scannedItems, itemId)
             IN (item = <<>> \/ ~Linked(liquorRecords, item[1])) =>
                   /\ ~last'.ret
                   /\ liquorRecords' = liquorRecords
                   /\ scannedItems' = scannedItems
                   /\ sessions' = sessions
                   /\ activeSessionId' = activeSessionId]_vars

\* updateScanEventPrice has returned false for an event of an existing
\* session whose record a later upload has discarded
PriceEditFailsWitness ==
    /\ last.op = "updatePrice"
    /\ ~last.ret
    /\ liquorRecords # <<>>
    /\ ItemById(scannedItems, last.id) # <<>>
    /\ ~Linked(liquorRecords, ItemById(scannedItems, last.id)[1])
    /\ ItemById(scannedItems, last.id)[1].sessionId \in SessionIds

\* C16: a download that fails leaves the catalog as it is, in every step of
\* the request, and is answered with an error.
FailedFetchKeepsCatalog ==
    [][/\ FetchStart(Download) => liquorRecords' = liquorRecords
       /\ FetchFail(Download) =>
             /\ liquorRecords' = liquorRecords
             /\ last'.op = "fetchFailed"
             /\ ~last'.ret]_vars

\* a download has failed while the catalog held an uploaded record and a
\* price-override copy, and both are still there
FailedFetchKeepsCatalogWitness ==
    /\ last.op = "fetchFailed"
    /\ ing[Upload].pc = "idle"
    /\ Len(liquorRecords) = 2
    /\ liquorRecords[1].key = liquorRecords[1].id
    /\ liquorRecords[2].key # liquorRecords[2].id

\* C17: when an ingestion answers, the catalog holds exactly one record per
\* parsed line of its input, in order, none of them a price-override copy
\* and none of them a record the catalog held when the ingestion began.
ReplacedCatalog ==
    [][\A k \in Ingests :
          IngestRespond(k) =>
             /\ Len(liquorRecords') = Len(ing[k].rows)
             /\ \A i \in 1..Len(liquorRecords') :
                   /\ i <= Len(ing[k].rows)
                   /\ liquorRecords'[i].key = liquorRecords'[i].id
                   /\ liquorRecords'[i] =
                         createLiquorRecord(liquorRecords'[i].id, ing[k].rows[i])
                   /\ \A j \in 1..Len(ing[k].old) :
                         ing[k].old[j].key # liquorRecords'[i].key]_vars

\* the catalog records whose id is the one the event carries
Joined(records, item) ==
    {k \in 1..Len(records) : records[k].id = item.liquorRecordId}

\* C18: the listing of a session answers successfully with one entry per
\* stored event of the session; an entry's product is a catalog record
\* whose id is the event's liquorRecordId, and is none, rendered as
\* "Product Not Found", when the catalog has no such record; label
\* generation takes exactly the events that have such a record.
ListingJoins ==
    [][/\ ListStart(UnknownId) =>
             /\ Len(req'.items) =
                   Cardinality({i \in 1..Len(scannedItems) :
                                   scannedItems[i].sessionId = UnknownId})
             /\ Cardinality({req'.items[j].id : j \in 1..Len(req'.items)}) = Len(req'.items)
             /\ \A j \in 1..Len(req'.items) :
                   /\ req'.items[j].sessionId = UnknownId
                   /\ \E i \in 1..Len(scannedItems) : scannedItems[i] = req'.items[j]
       /\ ListJoin =>
             /\ last'.ret
             /\ Len(last'.items) = Len(req.items)
             /\ \A i \in 1..Len(last'.items) :
                   LET entry == last'.items[i]
                   IN /\ i <= Len(req.items)
                      /\ entry.item = req.items[i]
                      /\ IF Joined(liquorRecords, entry.item) = {}
                         THEN /\ entry.product = <<>>
                              /\ renderHeading(entry) = ProductNotFound
                         ELSE /\ entry.product # <<>>
                              /\ \E k \in Joined(liquorRecords, entry.item) :
                                    entry.product[1] = liquorRecords[k]
                              /\ renderHeading(entry) = entry.product[1].brandName
       /\ LabelsJoin =>
             /\ \A i \in 1..Len(req.items) :
                   (Joined(liquorRecords, req.items[i]) # {}) <=>
                      (\E j \in 1..Len(last'.items) : last'.items[j].item = req.items[i])
             /\ \A j \in 1..Len(last'.items) :
                   /\ last'.items[j].product # <<>>
                   /\ \E i \in 1..Len(req.items) : last'.items[j].item = req.items[i]
             /\ Len(last'.items) <= Len(req.items)]_vars

\* the listing has answered with an entry without product, for an event
\* whose record a later ingestion has discarded, and an entry with product
ListingJoinsWitness ==
    /\ last.op = "list"
    /\ last.n = 2
    /\ last.items[1].product = <<>>
    /\ last.items[2].product # <<>>
    /\ last.items[2].product[1].id = last.items[2].item.liquorRecordId

----------------------------------------------------------------------------
(* Properties of the parser (SpecParse) *)

\* the lines of a content that the upload parses
NonBlank(content) == SelectSeq(content, LAMBDA line : trim(line) # <<>>)

\* the trimmed text of a field's column range in a line
FieldText(line, spec) == trim(slice(line, spec.start, spec.end))

\* C19: every record the parser returns has all 14 fields, a blank or
\* absent column range giving the empty string; and every record stored in
\* the catalog has all 14 fields, none of them null.
ParsedFieldsPresent ==
    [][/\ \A content \in Contents :
             (ProcessFileContent(content) /\ ing'[Upload].pc = "insert") =>
                /\ Len(ing'[Upload].rows) = Len(NonBlank(content))
                /\ \A i \in 1..Len(ing'[Upload].rows), f \in 1..Len(FIELD_SPECS) :
                      LET row == ing'[Upload].rows[i]
                          spec == FIELD_SPECS[f]
                      IN /\ spec.key \in DOMAIN row
                         /\ FieldText(NonBlank(content)[i], spec) = <<>> =>
                               row[spec.key] \in {<<>>, Str(<<>>)}
       /\ IngestInsert(Upload) =>
             LET record == liquorRecords'[Len(liquorRecords')]
             IN \A key \in FieldKeys :
                   /\ key \in DOMAIN record
                   /\ record[key] # Null
                   /\ record[key] # NullPrice]_vars

\* a string that is in its entirety a finite numeric literal
IsNumericLiteral(str) == IsStrDecimalLiteral(str) /\ unsigned(str) # InfinityLiteral

\* C20: a price field is a number iff its trimmed text without '$' and ','
\* is in its entirety a finite numeric literal, "$1,234.56" giving 1234.56;
\* any other text is kept as the trimmed string.
PriceParsed ==
    [][\A content \in Contents :
          (ProcessFileContent(content) /\ ing'[Upload].pc = "insert") =>
             \A i \in 1..Len(ing'[Upload].rows), f \in 1..Len(FIELD_SPECS) :
                LET value == ing'[Upload].rows[i][FIELD_SPECS[f].key]
                    text == FieldText(NonBlank(content)[i], FIELD_SPECS[f])
                IN FIELD_SPECS[f].name \in PriceNames =>
                      /\ IF IsNumericLiteral(removeDollarComma(text))
                         THEN value.t = "num"
                         ELSE value = Str(text)
                      /\ text = <<"$", "1", ",", "2", "3", "4", ".", "5", "6">> =>
                            value = Num(123456)]_vars

\* the lines of a content that hold a character other than white space
Kept(content) ==
    SelectSeq(content, LAMBDA line : \E i \in 1..Len(line) : line[i] \notin WhiteSpace)

\* the characters of columns start+1..end of a line from the first to the
\* last that is not white space
ColumnText(line, start, end) ==
    LET black == {i \in (start + 1)..end : i <= Len(line) /\ line[i] \notin WhiteSpace}
        first == CHOOSE i \in black : \A j \in black : i <= j
        final == CHOOSE i \in black : \A j \in black : i >= j
    IN IF black = {} THEN <<>> ELSE [i \in 1..(final - first + 1) |-> line[first + i - 1]]

\* MMDDYYYY written as YYYY-MM-DD
DateRewritten(t) == <<t[5], t[6], t[7], t[8], "-", t[1], t[2], "-", t[3], t[4]>>

SampleBrand ==
    <<"J", "a", "c", "k", " ", "D", "a", "n",
      "i", "e", "l", "'", "s", " ", "O", "l",
      "d", " ", "N", "o", ".", " ", "7">>

\* C21 as stated: the sample line parses to liquorCode "08234", brandName
\* "Jack Daniel's Old No. 7", the numeric shelfPrice 24.99 and effectiveDate
\* "2024-01-15".
SampleLineParsed ==
    [][ProcessFileContent(<<SampleLine>>) =>
          LET row == ing'[Upload].rows[1]
          IN /\ row.liquorCode = <<"0", "8", "2", "3", "4">>
             /\ row.brandName = SampleBrand
             /\ row.shelfPrice = Num(2499)
             /\ row.effectiveDate = <<"2", "0", "2", "4", "-", "0", "1", "-", "1", "5">>]_vars

\* C21: every field other than a price is the trimmed text of its column
\* range, an 8-character date MMDDYYYY being rewritten as YYYY-MM-DD; the
\* texts of the sample laid out in the columns of the field table parse to
\* liquorCode "08234", brandName "Jack Daniel's Old No. 7", shelfPrice 24.99
\* and effectiveDate "2024-01-15", while the sample line as printed, whose
\* columns are shifted, parses to the brand name with a trailing "0" after
\* eight spaces, shelfPrice 26.99 and effectiveDate "0987-43-21".
FieldsParsed ==
    [][\A content \in Contents :
          (ProcessFileContent(content) /\ ing'[Upload].pc = "insert") =>
             LET rows == ing'[Upload].rows
             IN /\ Len(rows) = Len(Kept(content))
                /\ \A i \in 1..Len(rows), f \in 1..Len(FIELD_SPECS) :
                      LET spec == FIELD_SPECS[f]
                          text == ColumnText(Kept(content)[i], spec.start, spec.end)
                      IN spec.name \notin PriceNames =>
                            rows[i][spec.key] =
                               IF spec.name = "EFFECTIVE DATE" /\ Len(text) = 8
                               THEN DateRewritten(text) ELSE text
                /\ content = <<AlignedSampleLine>> =>
                      /\ rows[1].liquorCode = <<"0", "8", "2", "3", "4">>
                      /\ rows[1].brandName = SampleBrand
                      /\ rows[1].shelfPrice = Num(2499)
                      /\ rows[1].effectiveDate = <<"2", "0", "2", "4", "-", "0", "1", "-", "1", "5">>
                /\ content = <<SampleLine>> =>
                      /\ rows[1].liquorCode = <<"0", "8", "2", "3", "4">>
                      /\ rows[1].brandName = SampleBrand \o Spaces(8) \o <<"0">>
                      /\ rows[1].shelfPrice = Num(2699)
                      /\ rows[1].effectiveDate = <<"0", "9", "8", "7", "-", "4", "3", "-", "2", "1">>]_vars

\* the aligned sample has been parsed and its record is about to be stored
FieldsParsedWitness ==
    /\ ing[Upload].pc = "insert"
    /\ Len(ing[Upload].rows) = 1
    /\ ing[Upload].rows[1].brandName = SampleBrand
    /\ ing[Upload].rows[1].effectiveDate = <<"2", "0", "2", "4", "-", "0", "1", "-", "1", "5">>

\* C22: an upload whose content is the empty string or holds only blank
\* lines is accepted and answered with success, totalRecords 0,
\* uniqueBrands 0, uniqueVendors 0 and average price 0.
EmptyInputSucceeds ==
    [][/\ \A content \in Contents :
             (Kept(content) = <<>> /\ ProcessFileContent(content)) =>
                /\ ing'[Upload].pc = "insert"
                /\ ing'[Upload].rows = <<>>
       /\ (IngestRespond(Upload) /\ ing[Upload].rows = <<>>) =>
             /\ last'.ret
             /\ last'.totalRecords = 0
             /\ last'.uniqueBrands = 0
             /\ last'.uniqueVendors = 0
             /\ last'.avgPrice = Num(0)]_vars

----------------------------------------------------------------------------
(* Properties of the label exports (SpecExport) *)

\* the entries of the listing the component holds that have a product
Resolved == SelectSeq(last.items, LAMBDA e : e.product # <<>>)

\* the Name cell of a row for a name and a bottle size
NameCell(name, bottleSize) ==
    <<"\"">> \o name \o <<" ">> \o SelectSeq(bottleSize, LAMBDA c : c # " ") \o <<"\"">>

\* C23: in the export with custom names the name of an event is the custom
\* name of a mapping whose UPC equals, exactly or up to leading zeros on
\* either side, the first of scanned barcode, UPC1 and UPC2 that any mapping
\* matches; when none of the three is matched it is the brand name.
CustomNameChosen ==
    [][\A mappings \in MappingLists :
          (ExportCustomNames(mappings) /\ last'.ret) =>
             \A j \in 1..Len(Resolved) :
                LET entry == Resolved[j]
                    codes == <<entry.item.scannedBarcode, entry.product[1].upcCode1,
                               entry.product[1].upcCode2>>
                    Matching(code) ==
                        {i \in 1..Len(mappings) : FieldMatches(code, mappings[i].upcCode)}
                    matched == {k \in 1..3 : Matching(codes[k]) # {}}
                    first == CHOOSE k \in matched : \A l \in matched : k <= l
                    cell == last'.csv[j + 1][7]
                IN IF matched = {}
                   THEN cell = NameCell(entry.product[1].brandName, entry.product[1].bottleSize)
                   ELSE \E i \in Matching(codes[first]) :
                           cell = NameCell(mappings[i].customName, entry.product[1].bottleSize)]_vars

\* C24: the label CSV has one data row for every event of the listing that
\* has a product, in their order, whatever the product's fields hold, and
\* the header and every data row have 28 columns.
PTouchRows ==
    [][ExportPTouch =>
          /\ Resolved # <<>> => Len(last'.csv) = Len(Resolved) + 1
          /\ \A j \in 1..Len(Resolved) :
                /\ j + 1 <= Len(last'.csv)
                /\ last'.csv[j + 1][1] = <<"\"">> \o Resolved[j].item.scannedBarcode \o <<"\"">>
          /\ \A r \in 1..Len(last'.csv) : Len(last'.csv[r]) = 28]_vars

----------------------------------------------------------------------------
(* Properties of the download route (SpecFetch) *)

\* C25: a download request that waits for the external source always
\* leaves that wait, by the source's data or by a fetch failure.
FetchEnds == (ing[Download].pc = "fetch") ~> (ing[Download].pc # "fetch")

----------------------------------------------------------------------------
(* Properties of price edits (SpecEdit) *)

\* the edit texts that are not a number, or are a negative one
InvalidEdits ==
    {editPrice \in EditPrices : ~IsNumericLiteral(editPrice) \/ Head(editPrice) = "-"}

\* C26: a price edit whose text is negative or not a number changes neither
\* the catalog nor any scanned item, so no record is added and the event's
\* liquorRecordId stays as it was.
InvalidEditRejected ==
    [][\A itemId \in ItemIds \cup {UnknownId}, editPrice \in InvalidEdits :
          SaveEditedPrice(itemId, editPrice) =>
             /\ liquorRecords' = liquorRecords
             /\ scannedItems' = scannedItems
             /\ ~last'.ret]_vars

\* an invalid edit of an event whose record is in the catalog was turned down
InvalidEditRejectedWitness ==
    /\ last.op = "invalidPrice"
    /\ \E i \in 1..Len(scannedItems) :
          /\ scannedItems[i].id = last.id
          /\ Linked(liquorRecords, scannedItems[i])

====
